---------------------------- MODULE Spec2Model ----------------------------
(***************************************************************************)
(* State-machine model of the banking backend in src/bank.py.              *)
(*                                                                         *)
(* The four tables (users, accounts, transactions, recurring_payments) are *)
(* sequences whose index is the row's integer primary key.  Every HTTP     *)
(* handler of the blueprint is one action; what a handler answers and      *)
(* commits for given inputs is an operator (...Response, ...Outcome) that  *)
(* the action applies.  Currency amounts are whole numbers of currency     *)
(* units, on which the doubles of the program compute exactly, except in   *)
(* the section on amounts with a fractional part; instants are whole days. *)
(*                                                                         *)
(* In src/bank.py the quote character is written with a backslash before   *)
(* it in the User and Account classes and in every handler; the model      *)
(* reads the handlers with that backslash removed.                         *)
(***************************************************************************)
EXTENDS Integers, Sequences, FiniteSets, TLC

VARIABLES
    users,          \* table users: <<[username, pin]>>
    accounts,       \* table accounts: <<[account_number, account_type, balance, user_id]>>
    transactions,   \* table transactions
    payments,       \* table recurring_payments
    session,        \* session["user_id"] of the client; 0 when absent
    now,            \* datetime.utcnow(), in days
    reqs            \* requests in flight (concurrent specification only)

vars == <<users, accounts, transactions, payments, session, now, reqs>>

-----------------------------------------------------------------------------
(* Bounds of the model *)

MaxUsers == 2
MaxTx == 2
MaxPayments == 2
MaxTicks == 1
NumRequests == 2

(* Program constants *)

DefaultBalance == 250000
WeeklyDays == 7
MonthlyDays == 30
YearlyDays == 365

-----------------------------------------------------------------------------
(* Input domains *)

UsernameOf(i) ==
    CASE i = 1 -> "alice" [] i = 2 -> "bob" [] i = 3 -> "carol" [] OTHER -> "dave"

AccountNumberOf(i) ==
    CASE i = 1 -> "1000000001" [] i = 2 -> "5555555555"
      [] i = 3 -> "9999999999" [] OTHER -> "4242424242"

Usernames == {UsernameOf(i) : i \in 1..MaxUsers}

\* what random.randint(1000000000, 9999999999) may return
AccountNumbers == {AccountNumberOf(i) : i \in 1..MaxUsers}

\* A pin is the sequence of the Unicode code points of its characters.
\* Digits: the code points c for which chr(c).isdigit() holds, which are those of
\* the decimal digits of every script and of the other characters with a digit value
\* (superscripts, subscripts, circled digits, ...), as of Unicode 14.0.0.
Digits ==
    (48..57) \cup (178..179) \cup {185} \cup (1632..1641) \cup
    (1776..1785) \cup (1984..1993) \cup (2406..2415) \cup (2534..2543) \cup
    (2662..2671) \cup (2790..2799) \cup (2918..2927) \cup (3046..3055) \cup
    (3174..3183) \cup (3302..3311) \cup (3430..3439) \cup (3558..3567) \cup
    (3664..3673) \cup (3792..3801) \cup (3872..3881) \cup (4160..4169) \cup
    (4240..4249) \cup (4969..4977) \cup (6112..6121) \cup (6160..6169) \cup
    (6470..6479) \cup (6608..6618) \cup (6784..6793) \cup (6800..6809) \cup
    (6992..7001) \cup (7088..7097) \cup (7232..7241) \cup (7248..7257) \cup
    {8304} \cup (8308..8313) \cup (8320..8329) \cup (9312..9320) \cup
    (9332..9340) \cup (9352..9360) \cup {9450} \cup (9461..9469) \cup
    {9471} \cup (10102..10110) \cup (10112..10120) \cup (10122..10130) \cup
    (42528..42537) \cup (43216..43225) \cup (43264..43273) \cup
    (43472..43481) \cup (43504..43513) \cup (43600..43609) \cup
    (44016..44025) \cup (65296..65305) \cup (66720..66729) \cup
    (68160..68163) \cup (68912..68921) \cup (69216..69224) \cup
    (69714..69722) \cup (69734..69743) \cup (69872..69881) \cup
    (69942..69951) \cup (70096..70105) \cup (70384..70393) \cup
    (70736..70745) \cup (70864..70873) \cup (71248..71257) \cup
    (71360..71369) \cup (71472..71481) \cup (71904..71913) \cup
    (72016..72025) \cup (72784..72793) \cup (73040..73049) \cup
    (73120..73129) \cup (92768..92777) \cup (92864..92873) \cup
    (93008..93017) \cup (120782..120831) \cup (123200..123209) \cup
    (123632..123641) \cup (125264..125273) \cup (127232..127242) \cup
    (130032..130041)

\* "1234", "4321", "12a4", "123"; ArabicPin is "1234" in ARABIC-INDIC digits
GoodPin == <<49, 50, 51, 52>>
OtherPin == <<52, 51, 50, 49>>
ArabicPin == <<1633, 1634, 1635, 1636>>
PinInputs == {<<>>, GoodPin, ArabicPin, <<49, 50, 97, 52>>, <<49, 50, 51>>}
LoginPins == {GoodPin, OtherPin}

AccountTypes == {"personal", "business"}
Frequencies == {"weekly", "monthly", "yearly"}

\* The JSON value of "amount": absent, a non-numeric string, or a number.
Amt(k, v) == [kind |-> k, val |-> v]
AmountValues == {200000, DefaultBalance}
AmountInputs ==
    {Amt("missing", 0), Amt("text", 0), Amt("number", 0), Amt("number", -1)}
        \cup {Amt("number", v) : v \in AmountValues}

-----------------------------------------------------------------------------
(* Helpers *)

Min(S) == CHOOSE x \in S : \A y \in S : x <= y

Ids(table) == 1..Len(table)

\* Query.first() over the rows whose ids are in S: the lowest rowid, 0 for None
First(S) == IF S = {} THEN 0 ELSE Min(S)

\* jsonify({"error": error}), status
Resp(status, error) == [status |-> status, error |-> error]

\* `not amount`
AmountFalsy(a) == a.kind = "missing" \/ (a.kind = "number" /\ a.val = 0)

Init ==
    /\ users = <<>>
    /\ accounts = <<>>
    /\ transactions = <<>>
    /\ payments = <<>>
    /\ session = 0
    /\ now = 0
    /\ reqs = <<>>


-----------------------------------------------------------------------------
(* POST /register *)

\* len(pin) == 4 and pin.isdigit()
IsFourDigits(pin) == Len(pin) = 4 /\ \A i \in 1..Len(pin) : pin[i] \in Digits

\* User.query.filter_by(username=username).first()
UserByName(username) == First({i \in Ids(users) : users[i].username = username})

\* Account.query.filter_by(account_number=number).first()
AccountByNumber(number) ==
    First({i \in Ids(accounts) : accounts[i].account_number = number})

\* Account(user_id=..., account_type=...): the column defaults and __init__
NewAccount(user_id, account_type, number) ==
    [account_number |-> number, account_type |-> account_type,
     balance |-> DefaultBalance, user_id |-> user_id]

RegisterResponse(username, pin, number) ==
    IF username = "" \/ pin = <<>> THEN Resp(400, "Username and PIN are required")
    ELSE IF ~IsFourDigits(pin) THEN Resp(400, "PIN must be exactly 4 digits")
    ELSE IF UserByName(username) # 0 THEN Resp(400, "Username already exists")
    \* the unique constraint on accounts.account_number fails the commit
    ELSE IF AccountByNumber(number) # 0 THEN Resp(500, "IntegrityError")
    ELSE Resp(201, "")

\* what the handler answers and what it has committed when it returns
RegisterOutcome(username, pin, account_type, number) ==
    LET r == RegisterResponse(username, pin, number) IN
    IF r.status = 201
    THEN [resp |-> r,
          users |-> Append(users, [username |-> username, pin |-> pin]),
          accounts |-> Append(accounts,
                              NewAccount(Len(users) + 1, account_type, number))]
    ELSE [resp |-> r, users |-> users, accounts |-> accounts]

register(username, pin, account_type, number) ==
    LET o == RegisterOutcome(username, pin, account_type, number) IN
    /\ Len(o.users) <= MaxUsers
    /\ users' = o.users
    /\ accounts' = o.accounts
    /\ UNCHANGED <<transactions, payments, session, now, reqs>>

-----------------------------------------------------------------------------
(* POST /login, POST /logout *)

\* User.query.filter_by(username=username, pin=pin).first()
UserByCredentials(username, pin) ==
    First({i \in Ids(users) : users[i].username = username /\ users[i].pin = pin})

LoginResponse(username, pin) ==
    IF username = "" \/ pin = <<>> THEN Resp(400, "Username and PIN are required")
    ELSE IF UserByCredentials(username, pin) = 0
         THEN Resp(401, "Invalid username or PIN")
    ELSE Resp(200, "")

login(username, pin) ==
    LET r == LoginResponse(username, pin) IN
    /\ session' = IF r.status = 200 THEN UserByCredentials(username, pin) ELSE session
    /\ UNCHANGED <<users, accounts, transactions, payments, now, reqs>>

logout ==
    /\ session' = 0
    /\ UNCHANGED <<users, accounts, transactions, payments, now, reqs>>

-----------------------------------------------------------------------------
(* Ledger helpers *)

\* Mutant: the debit is applied to the account twice
DebitTwice(accts, id, amount) == [accts EXCEPT ![id].balance = @ - amount - amount]

\* account.balance -= amount
Debit(accts, id, amount) == [accts EXCEPT ![id].balance = @ - amount]

\* Mutant: the credit is forgotten
CreditNothing(accts, id, amount) == accts

\* account.balance += amount
Credit(accts, id, amount) == [accts EXCEPT ![id].balance = @ + amount]

\* Transaction(from_account_id=..., to_account_id=..., amount=..., ...)
NewTransaction(from_id, to_id, amount, description, type) ==
    [from_account_id |-> from_id, to_account_id |-> to_id, amount |-> amount,
     description |-> description, transaction_type |-> type]

\* the response to a bad "amount", or Resp(200, "") when it is a positive number
AmountResponse(a) ==
    IF a.kind = "text" THEN Resp(400, "Invalid amount")
    ELSE IF a.val <= 0 THEN Resp(400, "Amount must be positive")
    ELSE Resp(200, "")

-----------------------------------------------------------------------------
(* POST /transfer *)

\* Account.query.filter_by(account_number=number, user_id=uid).first()
OwnedAccountByNumber(number, uid) ==
    First({i \in Ids(accounts) :
              accounts[i].account_number = number /\ accounts[i].user_id = uid})

\* Mutant: a transfer to the source account itself is refused
TransferResponseNoSelf(from_number, to_number, amount) ==
    IF session = 0 THEN Resp(401, "Not logged in")
    ELSE IF from_number = "" \/ to_number = "" \/ AmountFalsy(amount)
         THEN Resp(400, "From account, to account, and amount are required")
    ELSE IF AmountResponse(amount).status # 200 THEN AmountResponse(amount)
    ELSE IF OwnedAccountByNumber(from_number, session) = 0
         THEN Resp(404, "Source account not found or not owned by you")
    ELSE IF AccountByNumber(to_number) = 0
         THEN Resp(404, "Destination account not found")
    ELSE IF AccountByNumber(to_number) = OwnedAccountByNumber(from_number, session)
         THEN Resp(400, "Cannot transfer to the same account")
    ELSE IF accounts[OwnedAccountByNumber(from_number, session)].balance < amount.val
         THEN Resp(400, "Insufficient funds")
    ELSE Resp(200, "")

TransferResponse(from_number, to_number, amount) ==
    IF session = 0 THEN Resp(401, "Not logged in")
    ELSE IF from_number = "" \/ to_number = "" \/ AmountFalsy(amount)
         THEN Resp(400, "From account, to account, and amount are required")
    ELSE IF AmountResponse(amount).status # 200 THEN AmountResponse(amount)
    ELSE IF OwnedAccountByNumber(from_number, session) = 0
         THEN Resp(404, "Source account not found or not owned by you")
    ELSE IF AccountByNumber(to_number) = 0
         THEN Resp(404, "Destination account not found")
    ELSE IF accounts[OwnedAccountByNumber(from_number, session)].balance < amount.val
         THEN Resp(400, "Insufficient funds")
    ELSE Resp(200, "")

\* Mutant: the source is debited and committed before the funds are checked
TransferOutcomeEarlyDebit(from_number, to_number, amount, description) ==
    LET r == TransferResponse(from_number, to_number, amount)
        from_id == OwnedAccountByNumber(from_number, session)
        to_id == AccountByNumber(to_number)
    IN
    IF r.status = 200
    THEN [resp |-> r,
          accounts |-> Credit(Debit(accounts, from_id, amount.val), to_id, amount.val),
          transactions |-> Append(transactions,
              NewTransaction(from_id, to_id, amount.val, description, "transfer"))]
    ELSE IF r.error = "Insufficient funds"
    THEN [resp |-> r, accounts |-> Debit(accounts, from_id, amount.val),
          transactions |-> transactions]
    ELSE [resp |-> r, accounts |-> accounts, transactions |-> transactions]

\* what the handler answers and what it has committed when it returns
TransferOutcome(from_number, to_number, amount, description) ==
    LET r == TransferResponse(from_number, to_number, amount)
        from_id == OwnedAccountByNumber(from_number, session)
        to_id == AccountByNumber(to_number)
    IN
    IF r.status = 200
    THEN [resp |-> r,
          accounts |-> Credit(Debit(accounts, from_id, amount.val), to_id, amount.val),
          transactions |-> Append(transactions,
              NewTransaction(from_id, to_id, amount.val, description, "transfer"))]
    ELSE [resp |-> r, accounts |-> accounts, transactions |-> transactions]

transfer_money(from_number, to_number, amount, description) ==
    LET o == TransferOutcome(from_number, to_number, amount, description) IN
    /\ Len(o.transactions) <= MaxTx
    /\ accounts' = o.accounts
    /\ transactions' = o.transactions
    /\ UNCHANGED <<users, payments, session, now, reqs>>

-----------------------------------------------------------------------------
(* POST /charge *)

\* Mutant: the kind of the account is not part of the query
OwnedBusinessByNumberAnyKind(number, uid) ==
    First({i \in Ids(accounts) :
              accounts[i].account_number = number /\ accounts[i].user_id = uid})

\* Account.query.filter_by(account_number=number, user_id=uid,
\*                         account_type="business").first()
OwnedBusinessByNumber(number, uid) ==
    First({i \in Ids(accounts) :
              /\ accounts[i].account_number = number
              /\ accounts[i].user_id = uid
              /\ accounts[i].account_type = "business"})

\* Account.query.filter_by(user_id=uid).first()
FirstAccountOf(uid) == First({i \in Ids(accounts) : accounts[i].user_id = uid})

\* f"INVOICE: {reason}" and, with a description, f" - {description}"
InvoiceDescription(reason, description) ==
    IF description # "" THEN "INVOICE: " \o reason \o " - " \o description
    ELSE "INVOICE: " \o reason

ChargeResponse(business_number, username, pin, amount, reason) ==
    IF session = 0 THEN Resp(401, "Not logged in")
    ELSE IF \/ business_number = "" \/ username = "" \/ pin = <<>>
            \/ AmountFalsy(amount) \/ reason = ""
         THEN Resp(400, "All fields including reason are required")
    ELSE IF AmountResponse(amount).status # 200 THEN AmountResponse(amount)
    ELSE IF OwnedBusinessByNumber(business_number, session) = 0
         THEN Resp(404, "Business account not found or not owned by you")
    ELSE IF UserByCredentials(username, pin) = 0
         THEN Resp(401, "Invalid customer credentials")
    ELSE IF FirstAccountOf(UserByCredentials(username, pin)) = 0
         THEN Resp(404, "Customer account not found")
    ELSE IF accounts[FirstAccountOf(UserByCredentials(username, pin))].balance
                < amount.val
         THEN Resp(400, "Customer has insufficient funds")
    ELSE Resp(200, "")

\* Mutant: the Transaction is added and committed before the funds are checked
ChargeOutcomeEarlyLog(business_number, username, pin, amount, reason, description) ==
    LET r == ChargeResponse(business_number, username, pin, amount, reason)
        business_id == OwnedBusinessByNumber(business_number, session)
        customer_id == FirstAccountOf(UserByCredentials(username, pin))
    IN
    IF r.status = 200
    THEN [resp |-> r,
          accounts |-> Credit(Debit(accounts, customer_id, amount.val),
                              business_id, amount.val),
          transactions |-> Append(transactions,
              NewTransaction(customer_id, business_id, amount.val,
                             InvoiceDescription(reason, description), "charge"))]
    ELSE IF r.error = "Customer has insufficient funds"
    THEN [resp |-> r, accounts |-> accounts,
          transactions |-> Append(transactions,
              NewTransaction(customer_id, business_id, amount.val,
                             InvoiceDescription(reason, description), "charge"))]
    ELSE [resp |-> r, accounts |-> accounts, transactions |-> transactions]

\* what the handler answers and what it has committed when it returns
ChargeOutcome(business_number, username, pin, amount, reason, description) ==
    LET r == ChargeResponse(business_number, username, pin, amount, reason)
        business_id == OwnedBusinessByNumber(business_number, session)
        customer_id == FirstAccountOf(UserByCredentials(username, pin))
    IN
    IF r.status = 200
    THEN [resp |-> r,
          accounts |-> Credit(Debit(accounts, customer_id, amount.val),
                              business_id, amount.val),
          transactions |-> Append(transactions,
              NewTransaction(customer_id, business_id, amount.val,
                             InvoiceDescription(reason, description), "charge"))]
    ELSE [resp |-> r, accounts |-> accounts, transactions |-> transactions]

charge_customer(business_number, username, pin, amount, reason, description) ==
    LET o == ChargeOutcome(business_number, username, pin, amount, reason, description) IN
    /\ Len(o.transactions) <= MaxTx
    /\ accounts' = o.accounts
    /\ transactions' = o.transactions
    /\ UNCHANGED <<users, payments, session, now, reqs>>

-----------------------------------------------------------------------------
(* POST /recurring_payments *)

\* timedelta(weeks=1), timedelta(days=30), timedelta(days=365)
Offset(frequency) ==
    CASE frequency = "weekly" -> WeeklyDays
      [] frequency = "monthly" -> MonthlyDays
      [] frequency = "yearly" -> YearlyDays
      [] OTHER -> 0

\* next_payment = datetime.utcnow() + the cadence's timedelta
FirstPaymentDate(t, frequency) == t + Offset(frequency)

\* RecurringPayment(from_account_id=..., ...): is_active defaults to True
NewPayment(from_id, to_id, amount, description, frequency, next_date) ==
    [from_account_id |-> from_id, to_account_id |-> to_id, amount |-> amount,
     description |-> description, frequency |-> frequency, is_active |-> TRUE,
     next_payment_date |-> next_date, created_at |-> now]

CreateResponse(business_number, recipient_number, amount, frequency) ==
    IF session = 0 THEN Resp(401, "Not logged in")
    ELSE IF business_number = "" \/ recipient_number = "" \/ AmountFalsy(amount)
         THEN Resp(400, "Business account, recipient account, and amount are required")
    ELSE IF AmountResponse(amount).status # 200 THEN AmountResponse(amount)
    ELSE IF frequency \notin {"weekly", "monthly", "yearly"}
         THEN Resp(400, "Frequency must be weekly, monthly, or yearly")
    ELSE IF OwnedBusinessByNumber(business_number, session) = 0
         THEN Resp(404, "Business account not found or not owned by you")
    ELSE IF AccountByNumber(recipient_number) = 0
         THEN Resp(404, "Recipient account not found")
    ELSE Resp(201, "")

\* what the handler answers and what it has committed when it returns
CreateOutcome(business_number, recipient_number, amount, description, frequency) ==
    LET r == CreateResponse(business_number, recipient_number, amount, frequency) IN
    IF r.status = 201
    THEN [resp |-> r,
          payments |-> Append(payments,
              NewPayment(OwnedBusinessByNumber(business_number, session),
                         AccountByNumber(recipient_number), amount.val,
                         description, frequency, FirstPaymentDate(now, frequency)))]
    ELSE [resp |-> r, payments |-> payments]

create_recurring_payment(business_number, recipient_number, amount, description, frequency) ==
    LET o == CreateOutcome(business_number, recipient_number, amount, description, frequency) IN
    /\ Len(o.payments) <= MaxPayments
    /\ payments' = o.payments
    /\ UNCHANGED <<users, accounts, transactions, session, now, reqs>>

-----------------------------------------------------------------------------
(* DELETE /recurring_payments/<payment_id> *)

\* Account.query.filter_by(id=id, user_id=uid, account_type="business").first()
OwnedBusinessById(id, uid) ==
    First({i \in Ids(accounts) :
              i = id /\ accounts[i].user_id = uid
                     /\ accounts[i].account_type = "business"})

\* Mutant: the owner of the source account is not checked
CancelResponseAnyUser(payment_id) ==
    IF session = 0 THEN Resp(401, "Not logged in")
    ELSE IF payment_id \notin Ids(payments) THEN Resp(404, "Recurring payment not found")
    ELSE Resp(200, "")

CancelResponse(payment_id) ==
    IF session = 0 THEN Resp(401, "Not logged in")
    ELSE IF payment_id \notin Ids(payments) THEN Resp(404, "Recurring payment not found")
    ELSE IF OwnedBusinessById(payments[payment_id].from_account_id, session) = 0
         THEN Resp(403, "Unauthorized to cancel this payment")
    ELSE Resp(200, "")

\* Mutant: the flag is flipped, so that a second cancellation re-activates
CancelOutcomeToggle(payment_id) ==
    LET r == CancelResponse(payment_id) IN
    IF r.status = 200
    THEN [resp |-> r,
          payments |-> [payments EXCEPT ![payment_id].is_active = ~@]]
    ELSE [resp |-> r, payments |-> payments]

\* what the handler answers and what it has committed when it returns
CancelOutcome(payment_id) ==
    LET r == CancelResponse(payment_id) IN
    IF r.status = 200
    THEN [resp |-> r, payments |-> [payments EXCEPT ![payment_id].is_active = FALSE]]
    ELSE [resp |-> r, payments |-> payments]

cancel_recurring_payment(payment_id) ==
    /\ payments' = CancelOutcome(payment_id).payments
    /\ UNCHANGED <<users, accounts, transactions, session, now, reqs>>

-----------------------------------------------------------------------------
(* POST /process_recurring_payments *)

\* Mutant: cancelled payments are selected too
DuePaymentsWithCancelled(pays, t) ==
    SelectSeq([i \in 1..Len(pays) |-> i], LAMBDA i : pays[i].next_payment_date <= t)

\* RecurringPayment.query.filter(is_active == True, next_payment_date <= t).all(),
\* as the ids of the rows in rowid order
DuePayments(pays, t) ==
    SelectSeq([i \in 1..Len(pays) |-> i],
              LAMBDA i : pays[i].is_active /\ pays[i].next_payment_date <= t)

\* Mutant: the funds of the source are not checked
HasFundsAlways(balance, amount) == TRUE

\* payment.from_account.balance >= payment.amount
HasFunds(balance, amount) == balance >= amount

\* Mutant: the next payment date is left as it was
AdvancedPaymentDateStuck(next_date, frequency, t) == next_date

\* Mutant: the next payment date is counted from the instant of the batch
AdvancedPaymentDateFromNow(next_date, frequency, t) == t + Offset(frequency)

\* Mutant: the chain of branches has none for the yearly cadence
AdvancedPaymentDateNoYearly(next_date, frequency, t) ==
    IF frequency = "yearly" THEN next_date ELSE next_date + Offset(frequency)

\* payment.next_payment_date += the cadence's timedelta
\* (t is current_time, which the handler holds and does not use here)
AdvancedPaymentDate(next_date, frequency, t) == next_date + Offset(frequency)

\* Mutant: a payment is processed without a Transaction being added
ProcessOneUnlogged(id, st, t) ==
    LET p == st.payments[id] IN
    IF HasFunds(st.accounts[p.from_account_id].balance, p.amount)
    THEN [st EXCEPT
            !.accounts = Credit(Debit(@, p.from_account_id, p.amount),
                                p.to_account_id, p.amount),
            !.payments[id].next_payment_date = AdvancedPaymentDate(@, p.frequency, t),
            !.processed = @ + 1,
            !.paid = @ \cup {id}]
    ELSE [st EXCEPT !.failed = @ + 1]

\* Mutant: a payment that cannot be paid is not counted
ProcessOneUncounted(id, st, t) ==
    LET p == st.payments[id] IN
    IF HasFunds(st.accounts[p.from_account_id].balance, p.amount)
    THEN [st EXCEPT
            !.accounts = Credit(Debit(@, p.from_account_id, p.amount),
                                p.to_account_id, p.amount),
            !.transactions = Append(@,
                NewTransaction(p.from_account_id, p.to_account_id, p.amount,
                               "SALARY: " \o p.description, "salary")),
            !.payments[id].next_payment_date = AdvancedPaymentDate(@, p.frequency, t),
            !.processed = @ + 1,
            !.paid = @ \cup {id}]
    ELSE st

\* One pass of the loop body over payment `id`.  `st` is the unit of work of the
\* request: the rows as the session holds them, the counters, and the ids paid.
ProcessOne(id, st, t) ==
    LET p == st.payments[id] IN
    IF HasFunds(st.accounts[p.from_account_id].balance, p.amount)
    THEN [accounts |-> Credit(Debit(st.accounts, p.from_account_id, p.amount),
                              p.to_account_id, p.amount),
          transactions |-> Append(st.transactions,
              NewTransaction(p.from_account_id, p.to_account_id, p.amount,
                             "SALARY: " \o p.description, "salary")),
          payments |-> [st.payments EXCEPT ![id].next_payment_date =
                            AdvancedPaymentDate(@, p.frequency, t)],
          processed |-> st.processed + 1,
          failed |-> st.failed,
          paid |-> st.paid \cup {id}]
    ELSE [st EXCEPT !.failed = @ + 1]

\* Mutant: the loop ends at the first payment it cannot pay
RECURSIVE ProcessLoopStopping(_, _, _)
ProcessLoopStopping(due, st, t) ==
    IF due = <<>> THEN st
    ELSE LET next == ProcessOne(Head(due), st, t) IN
         IF next.failed > st.failed
         THEN [next EXCEPT !.failed = st.failed + Len(due)]
         ELSE ProcessLoopStopping(Tail(due), next, t)

RECURSIVE ProcessLoop(_, _, _)
ProcessLoop(due, st, t) ==
    IF due = <<>> THEN st
    ELSE ProcessLoop(Tail(due), ProcessOne(Head(due), st, t), t)

\* The whole batch at instant t on the given tables
ProcessBatch(accts, txs, pays, t) ==
    ProcessLoop(DuePayments(pays, t),
                [accounts |-> accts, transactions |-> txs, payments |-> pays,
                 processed |-> 0, failed |-> 0, paid |-> {}],
                t)

process_recurring_payments ==
    LET st == ProcessBatch(accounts, transactions, payments, now) IN
    /\ Len(st.transactions) <= MaxTx
    /\ accounts' = st.accounts
    /\ transactions' = st.transactions
    /\ payments' = st.payments
    /\ UNCHANGED <<users, session, now, reqs>>

-----------------------------------------------------------------------------
(* A batch in which the body of the loop raises for one payment.           *)
(*                                                                         *)
(* The body of the loop is inside try ... except Exception: failed_count   *)
(* += 1; continue.  The handler does not roll back and sets no savepoint,  *)
(* so what the body assigned to the rows of the session before it raised   *)
(* stays in the session, and the commit after the loop writes it.  The     *)
(* exception is raised at one of four places: by the funds check of line   *)
(* 509, the first statement of the try (nothing is assigned yet, whatever  *)
(* the balance), or, after the funds check passed, by the credit (the      *)
(* debit is done), by the construction of the Transaction (debit and       *)
(* credit are done), or by the advance of the date (debit, credit and the  *)
(* added Transaction are done).                                            *)

FaultPoints == {"funds", "credit", "log", "advance"}

\* the pass over payment `id` when the statement named by `point` raises
ProcessOneRaising(id, st, t, point) ==
    LET p == st.payments[id]
        debited == Debit(st.accounts, p.from_account_id, p.amount)
        credited == Credit(debited, p.to_account_id, p.amount)
    IN
    IF point = "funds"
    THEN [st EXCEPT !.failed = @ + 1]
    ELSE IF ~HasFunds(st.accounts[p.from_account_id].balance, p.amount)
    THEN ProcessOne(id, st, t)
    ELSE [st EXCEPT
            !.accounts = IF point = "credit" THEN debited ELSE credited,
            !.transactions =
               IF point = "advance"
               THEN Append(@, NewTransaction(p.from_account_id, p.to_account_id,
                               p.amount, "SALARY: " \o p.description, "salary"))
               ELSE @,
            !.failed = @ + 1]

RECURSIVE ProcessLoopRaising(_, _, _, _, _)
ProcessLoopRaising(due, st, t, victim, point) ==
    IF due = <<>> THEN st
    ELSE ProcessLoopRaising(Tail(due),
             IF Head(due) = victim THEN ProcessOneRaising(Head(due), st, t, point)
             ELSE ProcessOne(Head(due), st, t),
             t, victim, point)

\* the whole batch at instant t when the body raises for payment `victim`
ProcessBatchRaising(accts, txs, pays, t, victim, point) ==
    ProcessLoopRaising(DuePayments(pays, t),
                       [accounts |-> accts, transactions |-> txs, payments |-> pays,
                        processed |-> 0, failed |-> 0, paid |-> {}],
                       t, victim, point)

process_recurring_payments_raising(victim, point) ==
    LET st == ProcessBatchRaising(accounts, transactions, payments, now, victim, point) IN
    /\ victim \in Ids(payments)
    /\ payments[victim].is_active /\ payments[victim].next_payment_date <= now
    /\ Len(st.transactions) <= MaxTx
    /\ accounts' = st.accounts
    /\ transactions' = st.transactions
    /\ payments' = st.payments
    /\ UNCHANGED <<users, session, now, reqs>>

-----------------------------------------------------------------------------
(* The clock *)

TickDays == {WeeklyDays, MonthlyDays, YearlyDays}

RECURSIVE InstantsAfter(_)
InstantsAfter(k) ==
    IF k = 0 THEN {0}
    ELSE LET R == InstantsAfter(k - 1) IN R \cup {t + d : t \in R, d \in TickDays}

\* the instants the clock of the model visits
Instants == InstantsAfter(MaxTicks)

Tick(days) ==
    /\ now + days \in Instants
    /\ now' = now + days
    /\ UNCHANGED <<users, accounts, transactions, payments, session, reqs>>

-----------------------------------------------------------------------------
(* Requests handled one at a time *)

NumberInputs == AccountNumbers \cup {""}
UsernameInputs == Usernames \cup {""}
Reasons == {"", "rent"}
Descriptions == {""}
FrequencyInputs == Frequencies \cup {"daily"}

\* All handlers, one request at a time, in a bank whose first customer, a
\* business, has registered; the requests are well-formed.
InitOpen ==
    /\ users = <<[username |-> UsernameOf(1), pin |-> GoodPin]>>
    /\ accounts = <<NewAccount(1, "business", AccountNumberOf(1))>>
    /\ transactions = <<>>
    /\ payments = <<>>
    /\ session = 0
    /\ now = 0
    /\ reqs = <<>>

\* the one amount and the one cadence of these requests
OpenAmounts == {Amt("number", DefaultBalance)}
OpenFrequencies == {"weekly"}

Next ==
    \/ \E u \in Usernames, ty \in AccountTypes, n \in AccountNumbers :
          register(u, GoodPin, ty, n)
    \/ \E u \in Usernames : login(u, GoodPin)
    \/ logout
    \/ \E f \in AccountNumbers, t \in AccountNumbers, a \in OpenAmounts :
          transfer_money(f, t, a, "")
    \/ \E b \in AccountNumbers, u \in Usernames, a \in OpenAmounts :
          charge_customer(b, u, GoodPin, a, "rent", "")
    \/ \E b \in AccountNumbers, t \in AccountNumbers, a \in OpenAmounts,
          fr \in OpenFrequencies :
          create_recurring_payment(b, t, a, "Salary Payment", fr)
    \/ \E id \in 1..MaxPayments : cancel_recurring_payment(id)
    \/ process_recurring_payments
    \/ \E d \in TickDays : Tick(d)

Spec == InitOpen /\ [][Next]_vars

NextLedger ==
    \/ \E u \in UsernameInputs, p \in PinInputs, ty \in AccountTypes, n \in AccountNumbers :
          register(u, p, ty, n)
    \/ \E u \in UsernameInputs, p \in LoginPins \cup {<<>>} : login(u, p)
    \/ logout
    \/ \E f \in NumberInputs, t \in NumberInputs, a \in AmountInputs, d \in Descriptions :
          transfer_money(f, t, a, d)
    \/ \E b \in NumberInputs, u \in UsernameInputs, p \in LoginPins \cup {<<>>},
          a \in AmountInputs, r \in Reasons, d \in Descriptions :
          charge_customer(b, u, p, a, r, d)

SpecLedger == Init /\ [][NextLedger]_vars

-----------------------------------------------------------------------------
(* The recurring payments of an established bank: alice holds a business   *)
(* account and bob a personal one, both as register left them.             *)

InitRecurring ==
    /\ users = <<[username |-> UsernameOf(1), pin |-> GoodPin],
                 [username |-> UsernameOf(2), pin |-> GoodPin]>>
    /\ accounts = <<NewAccount(1, "business", AccountNumberOf(1)),
                    NewAccount(2, "personal", AccountNumberOf(2))>>
    /\ transactions = <<>>
    /\ payments = <<>>
    /\ session = 0
    /\ now = 0
    /\ reqs = <<>>

NextRecurring ==
    \/ \E u \in Usernames, p \in LoginPins : login(u, p)
    \/ logout
    \/ \E b \in NumberInputs, t \in NumberInputs, a \in AmountInputs,
          fr \in FrequencyInputs :
          create_recurring_payment(b, t, a, "Salary Payment", fr)
    \/ \E id \in 1..(MaxPayments + 1) : cancel_recurring_payment(id)
    \/ process_recurring_payments
    \/ \E d \in TickDays : Tick(d)

SpecRecurring == InitRecurring /\ [][NextRecurring]_vars

\* the recurring payments when the body of the loop may raise
NextRaising ==
    \/ NextRecurring
    \/ \E victim \in 1..MaxPayments, point \in FaultPoints :
          process_recurring_payments_raising(victim, point)

SpecRaising == InitRecurring /\ [][NextRaising]_vars

-----------------------------------------------------------------------------
(* The batch invoked again and again at one instant, nothing else between.  *)
(* It starts where alice, at instant 0, has created recurring payments from *)
(* her business account and cancelled some of them, and the clock has then  *)
(* moved to some instant; no payment has been processed yet.                *)

CreatedPayments ==
    {[from_account_id |-> 1, to_account_id |-> to, amount |-> a,
      description |-> "Salary Payment", frequency |-> fr, is_active |-> act,
      next_payment_date |-> FirstPaymentDate(0, fr), created_at |-> 0] :
        to \in {1, 2}, a \in AmountValues, fr \in Frequencies, act \in BOOLEAN}

InitRepeated ==
    /\ users = <<[username |-> UsernameOf(1), pin |-> GoodPin],
                 [username |-> UsernameOf(2), pin |-> GoodPin]>>
    /\ accounts = <<NewAccount(1, "business", AccountNumberOf(1)),
                    NewAccount(2, "personal", AccountNumberOf(2))>>
    /\ transactions = <<>>
    /\ payments \in UNION {[1..n -> CreatedPayments] : n \in 0..MaxPayments}
    /\ session = 0
    /\ now \in Instants
    /\ reqs = <<>>

\* POST /process_recurring_payments; the log is as long as the batches make it
process_recurring_payments_again ==
    LET st == ProcessBatch(accounts, transactions, payments, now) IN
    /\ accounts' = st.accounts
    /\ transactions' = st.transactions
    /\ payments' = st.payments
    /\ UNCHANGED <<users, session, now, reqs>>

NextRepeated == process_recurring_payments_again

\* the scheduler keeps invoking the batch
SpecRepeated ==
    InitRepeated /\ [][NextRepeated]_vars /\ WF_vars(process_recurring_payments_again)

-----------------------------------------------------------------------------
(* Requests handled concurrently.                                          *)
(*                                                                         *)
(* Each request runs in a session of its own: a query copies the row it    *)
(* finds into the session (a row the session already holds is not read     *)
(* again), the handler computes on its copies, and db.session.commit()     *)
(* writes the balances it changed, as the values it computed, and the new  *)
(* Transaction, in one database transaction.  Nothing is locked between a  *)
(* query and the commit.  The requests carry the session cookie of a       *)
(* logged-in user and well-formed fields.                                  *)

ReqIds == 1..NumRequests

IdleRequest ==
    [pc |-> "idle", op |-> "", uid |-> 0, src |-> "", dst |-> "", amount |-> 0,
     customer |-> 0,
     debit_id |-> 0, debit_balance |-> 0, credit_id |-> 0, credit_balance |-> 0,
     status |-> 0, error |-> ""]

InitConcurrent ==
    /\ users = <<[username |-> UsernameOf(1), pin |-> GoodPin],
                 [username |-> UsernameOf(2), pin |-> GoodPin]>>
    /\ accounts = <<NewAccount(1, "business", AccountNumberOf(1)),
                    NewAccount(2, "personal", AccountNumberOf(2))>>
    /\ transactions = <<>>
    /\ payments = <<>>
    /\ session = 0
    /\ now = 0
    /\ reqs = [r \in ReqIds |-> IdleRequest]

Answer(r, status, error) ==
    reqs' = [reqs EXCEPT ![r].pc = "done", ![r].status = status, ![r].error = error]

\* the request arrives: transfer_money up to the queries
BeginTransfer(r, uid, from_number, to_number, amount) ==
    /\ reqs[r].pc = "idle"
    /\ reqs' = [reqs EXCEPT ![r] = [IdleRequest EXCEPT
                   !.pc = "query_from", !.op = "transfer", !.uid = uid,
                   !.src = from_number, !.dst = to_number, !.amount = amount]]
    /\ UNCHANGED <<users, accounts, transactions, payments, session, now>>

\* from_account = Account.query.filter_by(account_number=..., user_id=...).first()
QueryFrom(r) ==
    /\ reqs[r].pc = "query_from"
    /\ LET id == OwnedAccountByNumber(reqs[r].src, reqs[r].uid) IN
       reqs' = [reqs EXCEPT ![r].pc = "query_to", ![r].debit_id = id,
                   ![r].debit_balance = IF id = 0 THEN 0 ELSE accounts[id].balance]
    /\ UNCHANGED <<users, accounts, transactions, payments, session, now>>

\* to_account = Account.query.filter_by(account_number=...).first()
QueryTo(r) ==
    /\ reqs[r].pc = "query_to"
    /\ LET id == AccountByNumber(reqs[r].dst) IN
       reqs' = [reqs EXCEPT ![r].pc = "commit", ![r].credit_id = id,
                   ![r].credit_balance =
                      IF id = 0 THEN 0
                      ELSE IF id = reqs[r].debit_id THEN reqs[r].debit_balance
                      ELSE accounts[id].balance]
    /\ UNCHANGED <<users, accounts, transactions, payments, session, now>>

\* the balances the commit writes: the values the session computed from its
\* copies, for the rows whose balance it changed
Written(accts, q) ==
    IF q.debit_id = q.credit_id THEN accts
    ELSE [accts EXCEPT ![q.debit_id].balance = q.debit_balance - q.amount,
                       ![q.credit_id].balance = q.credit_balance + q.amount]

\* the checks on the rows found, the mutation and db.session.commit()
CommitTransfer(r) ==
    LET q == reqs[r] IN
    /\ q.pc = "commit" /\ q.op = "transfer"
    /\ IF q.debit_id = 0
       THEN /\ Answer(r, 404, "Source account not found or not owned by you")
            /\ UNCHANGED <<accounts, transactions>>
       ELSE IF q.credit_id = 0
       THEN /\ Answer(r, 404, "Destination account not found")
            /\ UNCHANGED <<accounts, transactions>>
       ELSE IF q.debit_balance < q.amount
       THEN /\ Answer(r, 400, "Insufficient funds")
            /\ UNCHANGED <<accounts, transactions>>
       ELSE /\ Answer(r, 200, "")
            /\ accounts' = Written(accounts, q)
            /\ transactions' = Append(transactions,
                   NewTransaction(q.debit_id, q.credit_id, q.amount, "", "transfer"))
    /\ UNCHANGED <<users, payments, session, now>>

\* the request arrives: charge_customer up to the queries
BeginCharge(r, uid, business_number, username, amount) ==
    /\ reqs[r].pc = "idle"
    /\ reqs' = [reqs EXCEPT ![r] = [IdleRequest EXCEPT
                   !.pc = "query_business", !.op = "charge", !.uid = uid,
                   !.src = business_number, !.dst = username, !.amount = amount]]
    /\ UNCHANGED <<users, accounts, transactions, payments, session, now>>

\* business_account = Account.query.filter_by(..., account_type="business").first()
QueryBusiness(r) ==
    /\ reqs[r].pc = "query_business"
    /\ LET id == OwnedBusinessByNumber(reqs[r].src, reqs[r].uid) IN
       IF id = 0
       THEN Answer(r, 404, "Business account not found or not owned by you")
       ELSE reqs' = [reqs EXCEPT ![r].pc = "query_customer", ![r].credit_id = id,
                        ![r].credit_balance = accounts[id].balance]
    /\ UNCHANGED <<users, accounts, transactions, payments, session, now>>

\* customer = User.query.filter_by(username=..., pin=...).first()
QueryCustomer(r) ==
    /\ reqs[r].pc = "query_customer"
    /\ LET customer == UserByCredentials(reqs[r].dst, GoodPin) IN
       IF customer = 0 THEN Answer(r, 401, "Invalid customer credentials")
       ELSE reqs' = [reqs EXCEPT ![r].pc = "query_customer_account",
                        ![r].customer = customer]
    /\ UNCHANGED <<users, accounts, transactions, payments, session, now>>

\* customer_account = Account.query.filter_by(user_id=customer.id).first()
QueryCustomerAccount(r) ==
    /\ reqs[r].pc = "query_customer_account"
    /\ LET id == FirstAccountOf(reqs[r].customer) IN
       IF id = 0 THEN Answer(r, 404, "Customer account not found")
       ELSE reqs' = [reqs EXCEPT ![r].pc = "commit", ![r].debit_id = id,
                        ![r].debit_balance =
                           IF id = reqs[r].credit_id THEN reqs[r].credit_balance
                           ELSE accounts[id].balance]
    /\ UNCHANGED <<users, accounts, transactions, payments, session, now>>

\* the funds check on the row found, the mutation and db.session.commit()
CommitCharge(r) ==
    LET q == reqs[r] IN
    /\ q.pc = "commit" /\ q.op = "charge"
    /\ IF q.debit_balance < q.amount
       THEN /\ Answer(r, 400, "Customer has insufficient funds")
            /\ UNCHANGED <<accounts, transactions>>
       ELSE /\ Answer(r, 200, "")
            /\ accounts' = Written(accounts, q)
            /\ transactions' = Append(transactions,
                   NewTransaction(q.debit_id, q.credit_id, q.amount,
                                  InvoiceDescription("rent", ""), "charge"))
    /\ UNCHANGED <<users, payments, session, now>>

NextConcurrent ==
    \E r \in ReqIds :
       \/ \E uid \in Ids(users), f \in AccountNumbers, t \in AccountNumbers,
             a \in AmountValues : BeginTransfer(r, uid, f, t, a)
       \/ QueryFrom(r)
       \/ QueryTo(r)
       \/ CommitTransfer(r)
       \/ \E uid \in Ids(users), b \in AccountNumbers, u \in Usernames,
             a \in AmountValues : BeginCharge(r, uid, b, u, a)
       \/ QueryBusiness(r)
       \/ QueryCustomer(r)
       \/ QueryCustomerAccount(r)
       \/ CommitCharge(r)

SpecConcurrent == InitConcurrent /\ [][NextConcurrent]_vars

-----------------------------------------------------------------------------
(* Amounts with a fractional part.                                         *)
(*                                                                         *)
(* balance and amount are Float columns and the handlers compute on        *)
(* float(amount): the numbers of the program are IEEE-754 doubles, whose   *)
(* sums and differences are the exact result rounded to the nearest        *)
(* double, ties to the even mantissa.  On whole numbers below 2^53 the     *)
(* rounding changes nothing, which is how the sections above compute.      *)
(* This section computes on doubles with a fractional part.  A number      *)
(* w + g * 2^-GrainBits, with w a whole number >= 0 and g an integer far   *)
(* smaller than 2^GrainBits in absolute value, is written                  *)
(* [whole |-> w, grains |-> g].                                            *)

GrainBits == 40
MantissaBits == 52
MaxFractionTx == 3

Double(w, g) == [whole |-> w, grains |-> g]

RECURSIVE Pow2(_)
Pow2(n) == IF n = 0 THEN 1 ELSE 2 * Pow2(n - 1)

\* the exponent of the whole number w >= 1: the e with 2^e <= w < 2^(e+1)
RECURSIVE Exponent(_)
Exponent(w) == IF w < 2 THEN 0 ELSE 1 + Exponent(w \div 2)

\* the double nearest to w + g * 2^-GrainBits, the even mantissa on a tie.  The
\* doubles of the binade of exponent e are the multiples of 2^(e - MantissaBits),
\* which is 2^(GrainBits + e - MantissaBits) grains.
RoundToDouble(w, g) ==
    IF w = 0 THEN Double(0, g)
    ELSE LET e == IF g < 0 /\ w = Pow2(Exponent(w)) THEN Exponent(w) - 1
                  ELSE Exponent(w)
             shift == GrainBits + e - MantissaBits
         IN
         IF shift <= 0 THEN Double(w, g)
         ELSE LET ulp == Pow2(shift)
                  q == g \div ulp
                  r == g % ulp
                  up == 2 * r > ulp \/ (2 * r = ulp /\ q % 2 = 1)
              IN Double(w, (IF up THEN q + 1 ELSE q) * ulp)

\* x < y on doubles
DoubleLess(x, y) ==
    x.whole < y.whole \/ (x.whole = y.whole /\ x.grains < y.grains)

\* account.balance -= amount
DebitDouble(accts, id, amount) ==
    [accts EXCEPT ![id].balance =
        RoundToDouble(@.whole - amount.whole, @.grains - amount.grains)]

\* account.balance += amount
CreditDouble(accts, id, amount) ==
    [accts EXCEPT ![id].balance =
        RoundToDouble(@.whole + amount.whole, @.grains + amount.grains)]

\* The JSON numbers 0, 9.094947017729282e-13 (2^-40), 1.4551915228366852e-11
\* (2^-36), 2.1827872842550278e-11 (1.5 * 2^-36) and 200000: each is a double.
FractionAmounts ==
    {Double(0, 0), Double(0, 1), Double(0, 16), Double(0, 24), Double(200000, 0)}

\* transfer_money when "amount" is a JSON number, given as the double it parses to
TransferResponseDouble(from_number, to_number, amount) ==
    IF session = 0 THEN Resp(401, "Not logged in")
    ELSE IF from_number = "" \/ to_number = "" \/ amount = Double(0, 0)
         THEN Resp(400, "From account, to account, and amount are required")
    ELSE IF ~DoubleLess(Double(0, 0), amount) THEN Resp(400, "Amount must be positive")
    ELSE IF OwnedAccountByNumber(from_number, session) = 0
         THEN Resp(404, "Source account not found or not owned by you")
    ELSE IF AccountByNumber(to_number) = 0
         THEN Resp(404, "Destination account not found")
    ELSE IF DoubleLess(accounts[OwnedAccountByNumber(from_number, session)].balance,
                       amount)
         THEN Resp(400, "Insufficient funds")
    ELSE Resp(200, "")

TransferOutcomeDouble(from_number, to_number, amount, description) ==
    LET r == TransferResponseDouble(from_number, to_number, amount)
        from_id == OwnedAccountByNumber(from_number, session)
        to_id == AccountByNumber(to_number)
    IN
    IF r.status = 200
    THEN [resp |-> r,
          accounts |-> CreditDouble(DebitDouble(accounts, from_id, amount),
                                    to_id, amount),
          transactions |-> Append(transactions,
              NewTransaction(from_id, to_id, amount, description, "transfer"))]
    ELSE [resp |-> r, accounts |-> accounts, transactions |-> transactions]

transfer_money_double(from_number, to_number, amount, description) ==
    LET o == TransferOutcomeDouble(from_number, to_number, amount, description) IN
    /\ Len(o.transactions) <= MaxFractionTx
    /\ accounts' = o.accounts
    /\ transactions' = o.transactions
    /\ UNCHANGED <<users, payments, session, now, reqs>>

\* Two registered users, each with the account of the registration, its balance
\* written as a double; logins and transfers, one request at a time.
InitFractions ==
    /\ users = <<[username |-> UsernameOf(1), pin |-> GoodPin],
                 [username |-> UsernameOf(2), pin |-> GoodPin]>>
    /\ accounts =
          <<[NewAccount(1, "business", AccountNumberOf(1))
                EXCEPT !.balance = Double(DefaultBalance, 0)],
            [NewAccount(2, "personal", AccountNumberOf(2))
                EXCEPT !.balance = Double(DefaultBalance, 0)]>>
    /\ transactions = <<>>
    /\ payments = <<>>
    /\ session = 0
    /\ now = 0
    /\ reqs = <<>>

NextFractions ==
    \/ \E u \in Usernames : login(u, GoodPin)
    \/ \E f \in NumberInputs, t \in NumberInputs, a \in FractionAmounts :
          transfer_money_double(f, t, a, "")

SpecFractions == InitFractions /\ [][NextFractions]_vars

-----------------------------------------------------------------------------
(* Properties of transfer (SpecLedger) *)

\* txs is the current log with exactly one Transaction more, of the given kind
OneMore(txs, from_id, to_id, m, type) ==
    /\ Len(txs) = Len(transactions) + 1
    /\ SubSeq(txs, 1, Len(transactions)) = transactions
    /\ txs[Len(txs)].from_account_id = from_id
    /\ txs[Len(txs)].to_account_id = to_id
    /\ txs[Len(txs)].amount = m
    /\ txs[Len(txs)].transaction_type = type

\* the caller owns account `f`, account `t` exists and 0 < a <= balance(f)
TransferCase(f, t, a) ==
    /\ session # 0
    /\ OwnedAccountByNumber(f, session) # 0
    /\ AccountByNumber(t) # 0
    /\ a.kind = "number"
    /\ 0 < a.val
    /\ a.val <= accounts[OwnedAccountByNumber(f, session)].balance

C2_TransferErrorChangesNothing ==
    \A f \in NumberInputs, t \in NumberInputs, a \in AmountInputs, d \in Descriptions :
       LET o == TransferOutcome(f, t, a, d) IN
       o.resp.status # 200 => o.accounts = accounts /\ o.transactions = transactions

\* The caller is logged in and a transfer from an account of theirs for more than
\* its balance is refused for lack of funds, after an earlier transfer drew on it.
C2_Witness ==
    /\ session # 0
    /\ Len(transactions) > 0
    /\ \E f \in AccountNumbers, t \in AccountNumbers, a \in AmountInputs :
          /\ TransferResponse(f, t, a) = Resp(400, "Insufficient funds")
          /\ a.val > accounts[OwnedAccountByNumber(f, session)].balance
          /\ accounts[OwnedAccountByNumber(f, session)].balance < DefaultBalance

-----------------------------------------------------------------------------
(* Properties of charge (SpecLedger) *)

LoginPinInputs == LoginPins \cup {<<>>}

\* the caller owns business account `b`, (u, p) are the credentials of a customer
\* with an account, and 0 < a <= the balance of the customer's first account
ChargeCase(b, u, p, a) ==
    /\ session # 0
    /\ OwnedBusinessByNumber(b, session) # 0
    /\ UserByCredentials(u, p) # 0
    /\ FirstAccountOf(UserByCredentials(u, p)) # 0
    /\ a.kind = "number"
    /\ 0 < a.val
    /\ a.val <= accounts[FirstAccountOf(UserByCredentials(u, p))].balance

C7_PersonalChargeDistinguishable ==
    \A b \in AccountNumbers, u \in UsernameInputs, p \in LoginPinInputs,
       a \in AmountInputs, r \in Reasons, d \in Descriptions :
       (/\ session # 0
        /\ OwnedAccountByNumber(b, session) # 0
        /\ accounts[OwnedAccountByNumber(b, session)].account_type = "personal"
        /\ u # "" /\ p # <<>> /\ r # "" /\ a.kind = "number" /\ a.val > 0) =>
          LET o == ChargeOutcome(b, u, p, a, r, d) IN
          /\ o.resp.status # 200
          /\ o.accounts = accounts
          /\ o.transactions = transactions
          /\ \A b2 \in AccountNumbers :
                (\/ AccountByNumber(b2) = 0
                 \/ accounts[AccountByNumber(b2)].user_id # session) =>
                   ChargeResponse(b2, u, p, a, r) # o.resp

\* C8: a charge that ends in any error (business account missing, not owned or not
\* business, invalid customer credentials, customer without an account, a field
\* missing, amount <= 0 or not a number, customer balance below the amount, no
\* login) leaves every account as it was and appends no Transaction.
C8_ChargeErrorChangesNothing ==
    \A b \in NumberInputs, u \in UsernameInputs, p \in LoginPinInputs,
       a \in AmountInputs, r \in Reasons, d \in Descriptions :
       LET o == ChargeOutcome(b, u, p, a, r, d) IN
       o.resp.status # 200 => o.accounts = accounts /\ o.transactions = transactions

\* A business is logged in and its charge of a customer is refused because the
\* customer's account, drawn on before, holds less than the amount.
C8_Witness ==
    /\ session # 0
    /\ Len(transactions) > 0
    /\ \E b \in AccountNumbers, u \in Usernames, a \in AmountInputs :
          /\ ChargeResponse(b, u, GoodPin, a, "rent")
                = Resp(400, "Customer has insufficient funds")
          /\ accounts[FirstAccountOf(UserByName(u))].balance < a.val
          /\ accounts[OwnedBusinessByNumber(b, session)].balance >= a.val

-----------------------------------------------------------------------------
(* Properties of the balances (Spec) *)

\* C3: in every state reached by register, transfer, charge, creating, cancelling
\* and processing recurring payments, one request at a time, every account balance
\* is >= 0, also after a batch in which several due payments draw on one source.
C3_BalancesNonNegative == \A i \in Ids(accounts) : accounts[i].balance >= 0

\* A batch has run in which two due payments drew on the same source: the first
\* was paid, the second was left due because the source no longer held its amount.
C3_Witness ==
    \E p1 \in Ids(payments), p2 \in Ids(payments) :
       /\ p1 < p2
       /\ payments[p1].from_account_id = payments[p2].from_account_id
       /\ payments[p1].is_active /\ payments[p2].is_active
       /\ payments[p1].next_payment_date > now
       /\ payments[p2].next_payment_date <= now
       /\ accounts[payments[p2].from_account_id].balance < payments[p2].amount
       /\ \E k \in Ids(transactions) :
             /\ transactions[k].transaction_type = "salary"
             /\ transactions[k].from_account_id = payments[p1].from_account_id
             /\ transactions[k].amount = payments[p1].amount

-----------------------------------------------------------------------------
(* Properties of the recurring payments (SpecRecurring) *)

\* the batch run now, and the batch run again at once with the same now
FirstCall == ProcessBatch(accounts, transactions, payments, now)
SecondCall ==
    ProcessBatch(FirstCall.accounts, FirstCall.transactions, FirstCall.payments, now)

\* the payments the second call selects as due
SecondSelection ==
    {DuePayments(FirstCall.payments, now)[k] :
        k \in 1..Len(DuePayments(FirstCall.payments, now))}

\* C9 as stated: invoking processDuePayments twice in immediate succession with the
\* same now processes any payment at most once: each payment processed by the first
\* call has nextDue > now afterwards and the second call skips it.
C9_SecondCallSkips ==
    \A p \in FirstCall.paid :
       /\ FirstCall.payments[p].next_payment_date > now
       /\ p \notin SecondCall.paid

\* C9 amended: a payment processed by the first call whose nextDue was less than one
\* cadence interval behind now (nextDue + offset > now) has nextDue > now afterwards
\* and is skipped by the second call; a payment a whole interval or more behind is
\* still due after the first call, and the second call processes it again when its
\* source still holds the amount.  Each call processes a payment at most once.
C9_SecondCallSkipsWithinInterval ==
    /\ FirstCall.processed = Cardinality(FirstCall.paid)
    /\ Len(FirstCall.transactions) = Len(transactions) + Cardinality(FirstCall.paid)
    /\ \A p \in FirstCall.paid :
          IF payments[p].next_payment_date + Offset(payments[p].frequency) > now
          THEN /\ FirstCall.payments[p].next_payment_date > now
               /\ p \notin SecondSelection
               /\ p \notin SecondCall.paid
          ELSE /\ FirstCall.payments[p].next_payment_date <= now
               /\ p \in SecondSelection

\* A batch has paid a payment that was due by less than one interval: its salary
\* is in the log, its nextDue is now ahead of now, and a further call at the same
\* now processes nothing.
C9_Witness ==
    /\ FirstCall.processed = 0
    /\ \E p \in Ids(payments) :
          /\ payments[p].is_active
          /\ payments[p].next_payment_date > now
          /\ payments[p].next_payment_date - Offset(payments[p].frequency) <= now
          /\ payments[p].next_payment_date
                = payments[p].created_at + 2 * Offset(payments[p].frequency)
          /\ \E k \in Ids(transactions) :
                /\ transactions[k].transaction_type = "salary"
                /\ transactions[k].from_account_id = payments[p].from_account_id
                /\ transactions[k].to_account_id = payments[p].to_account_id

\* the offset the claim names for a cadence, in days
CadenceDays(frequency) ==
    CASE frequency = "weekly" -> 7 [] frequency = "monthly" -> 30
      [] frequency = "yearly" -> 365

\* C10: a recurring payment is created with nextDue = creation time + offset, and
\* each processing by processDuePayments sets nextDue to exactly the prior nextDue +
\* the same offset (never now + offset), the offset being 7 days for weekly, 30 days
\* for monthly and 365 days for yearly; a payment the batch does not process keeps
\* its nextDue.
C10_NextDueByCadence ==
    /\ \A b \in NumberInputs, t \in NumberInputs, a \in AmountInputs,
          fr \in FrequencyInputs :
          LET o == CreateOutcome(b, t, a, "Salary Payment", fr) IN
          o.resp.status = 201 =>
             /\ fr \in Frequencies
             /\ Len(o.payments) = Len(payments) + 1
             /\ SubSeq(o.payments, 1, Len(payments)) = payments
             /\ o.payments[Len(o.payments)].frequency = fr
             /\ o.payments[Len(o.payments)].created_at = now
             /\ o.payments[Len(o.payments)].next_payment_date = now + CadenceDays(fr)
    /\ Len(FirstCall.payments) = Len(payments)
    /\ \A p \in Ids(payments) :
          FirstCall.payments[p] =
             IF p \in FirstCall.paid
             THEN [payments[p] EXCEPT !.next_payment_date =
                      @ + CadenceDays(payments[p].frequency)]
             ELSE payments[p]

\* A monthly payment created at one instant has been processed once at a later
\* instant that is not its due date: its nextDue is its creation time plus twice
\* 30 days, which is not now + 30 days, and its salary is in the log.
C10_Witness ==
    \E p \in Ids(payments) :
       /\ payments[p].frequency = "monthly"
       /\ payments[p].next_payment_date = payments[p].created_at + 30 + 30
       /\ payments[p].next_payment_date # now + 30
       /\ \E k \in Ids(transactions) :
             /\ transactions[k].transaction_type = "salary"
             /\ transactions[k].from_account_id = payments[p].from_account_id
             /\ transactions[k].to_account_id = payments[p].to_account_id
             /\ transactions[k].amount = payments[p].amount

-----------------------------------------------------------------------------
(* Properties of concurrent requests (SpecConcurrent) *)

AllDone == \A r \in ReqIds : reqs[r].pc = "done"

Succeeded == {r \in ReqIds : reqs[r].pc = "done" /\ reqs[r].status = 200}

RECURSIVE SumOver(_, _)
SumOver(S, f) ==
    IF S = {} THEN 0
    ELSE LET x == CHOOSE y \in S : TRUE IN f[x] + SumOver(S \ {x}, f)

\* the balance the log accounts for: the opening balance, plus the amounts of the
\* Transactions to the account, minus the amounts of those from it
BalanceByLog(i) ==
    DefaultBalance
      + SumOver({k \in Ids(transactions) : transactions[k].to_account_id = i},
                [k \in Ids(transactions) |-> transactions[k].amount])
      - SumOver({k \in Ids(transactions) : transactions[k].from_account_id = i},
                [k \in Ids(transactions) |-> transactions[k].amount])

\* C4: when two transfers debiting the same source account run concurrently, with
\* amounts that each fit the balance but together exceed it, exactly one succeeds
\* and the other fails with InsufficientFunds; the source balance is never negative
\* and is debited only once.
C4_NoDoubleSpend ==
    \A r1 \in ReqIds, r2 \in ReqIds :
       (/\ r1 # r2
        /\ reqs[r1].pc = "done" /\ reqs[r2].pc = "done"
        /\ \A r \in ReqIds \ {r1, r2} : reqs[r].pc = "idle"
        /\ reqs[r1].op = "transfer" /\ reqs[r2].op = "transfer"
        /\ reqs[r1].debit_id # 0 /\ reqs[r1].debit_id = reqs[r2].debit_id
        /\ reqs[r1].credit_id # 0 /\ reqs[r2].credit_id # 0
        /\ reqs[r1].credit_id # reqs[r1].debit_id
        /\ reqs[r2].credit_id # reqs[r2].debit_id
        /\ reqs[r1].amount <= DefaultBalance /\ reqs[r2].amount <= DefaultBalance
        /\ reqs[r1].amount + reqs[r2].amount > DefaultBalance) =>
          /\ Cardinality(Succeeded) = 1
          /\ \A r \in {r1, r2} \ Succeeded :
                reqs[r].status = 400 /\ reqs[r].error = "Insufficient funds"
          /\ accounts[reqs[r1].debit_id].balance >= 0
          /\ \E r \in Succeeded :
                accounts[reqs[r1].debit_id].balance = DefaultBalance - reqs[r].amount

\* C5: under every interleaving of concurrently running ledger operations that
\* touch a common account the outcome is that of a serial execution: no debit or
\* credit is lost, so every balance is the one the log accounts for, the sum of all
\* balances is what it was, and each successful operation has exactly one log entry.
C5_Serializable ==
    AllDone =>
       /\ \A i \in Ids(accounts) : accounts[i].balance = BalanceByLog(i)
       /\ SumOver(Ids(accounts), [i \in Ids(accounts) |-> accounts[i].balance])
             = Len(accounts) * DefaultBalance
       /\ Len(transactions) = Cardinality(Succeeded)

-----------------------------------------------------------------------------
(* Properties of a batch of due payments (Spec) *)

\* the payments the batch run now selects, and their amounts
Selection == {DuePayments(payments, now)[k] : k \in 1..Len(DuePayments(payments, now))}
PaymentAmounts == [q \in Ids(payments) |-> payments[q].amount]

\* the payments the batch pays that draw on, and that pay into, account i
PaidFrom(S, i) == {q \in S : payments[q].from_account_id = i}
PaidTo(S, i) == {q \in S : payments[q].to_account_id = i}

\* the balance of the source of payment d when the loop comes to d: the balance
\* before the batch, moved by the payments of lower row id that the batch paid
BalanceAtTurn(d) ==
    LET src == payments[d].from_account_id
        before == {q \in FirstCall.paid : q < d}
    IN accounts[src].balance + SumOver(PaidTo(before, src), PaymentAmounts)
                             - SumOver(PaidFrom(before, src), PaymentAmounts)

\* C11: in a batch, a due payment whose source holds less than its amount when its
\* turn comes is left as it was (active, nextDue unchanged), moves no balance, adds
\* no Transaction, is counted in failed and is selected again by the next call;
\* every other due payment, whose source holds its amount, is processed and
\* committed whatever failed before or after it.
C11_FailureIsolated ==
    /\ \A d \in Selection :
          IF BalanceAtTurn(d) < payments[d].amount
          THEN /\ d \notin FirstCall.paid
               /\ FirstCall.payments[d] = payments[d]
               /\ d \in SecondSelection
          ELSE /\ d \in FirstCall.paid
               /\ FirstCall.payments[d].next_payment_date > payments[d].next_payment_date
    /\ FirstCall.paid \subseteq Selection
    /\ FirstCall.failed = Cardinality(Selection \ FirstCall.paid)
    /\ \A i \in Ids(accounts) :
          FirstCall.accounts[i].balance =
             accounts[i].balance + SumOver(PaidTo(FirstCall.paid, i), PaymentAmounts)
                                 - SumOver(PaidFrom(FirstCall.paid, i), PaymentAmounts)
    /\ Len(FirstCall.transactions) = Len(transactions) + Cardinality(FirstCall.paid)

\* A batch has run in which the payment of lower row id could not be paid, its
\* source being empty, and the payment after it was paid: the first is still active
\* and due and has no salary in the log, the second has its salary in the log and
\* its nextDue ahead of now.
C11_Witness ==
    \E p1 \in Ids(payments), p2 \in Ids(payments) :
       /\ p1 < p2
       /\ payments[p1].is_active
       /\ payments[p1].next_payment_date <= now
       /\ payments[p1].next_payment_date
             = payments[p1].created_at + Offset(payments[p1].frequency)
       /\ \A k \in Ids(transactions) :
             ~(/\ transactions[k].transaction_type = "salary"
               /\ transactions[k].from_account_id = payments[p1].from_account_id)
       /\ payments[p2].created_at < now
       /\ payments[p2].next_payment_date > now
       /\ payments[p2].next_payment_date
             = payments[p2].created_at + 2 * Offset(payments[p2].frequency)
       /\ \E k \in Ids(transactions) :
             /\ transactions[k].transaction_type = "salary"
             /\ transactions[k].from_account_id = payments[p2].from_account_id
             /\ transactions[k].amount = payments[p2].amount

-----------------------------------------------------------------------------
(* Properties of cancellation (SpecRecurring) *)

PaymentIdInputs == 1..(MaxPayments + 1)

\* the caller owns the business account that payment `id` draws on
OwnsSourceOf(id) ==
    /\ session # 0
    /\ id \in Ids(payments)
    /\ OwnedBusinessById(payments[id].from_account_id, session) # 0

\* a step that clears the active flag of payment `id`
Cancels(id) ==
    /\ id \in Ids(payments)
    /\ payments[id].is_active
    /\ Len(payments') = Len(payments)
    /\ ~payments'[id].is_active

\* C12: cancelRecurringPayment by the owner of the payment's business source account
\* succeeds whether the payment is active or already cancelled, and leaves it
\* inactive with every other field of it, every other payment, all balances and the
\* log as they were; so the first call and every later call do the same.
C12_CancelIdempotent ==
    /\ [](\A id \in PaymentIdInputs :
             OwnsSourceOf(id) =>
                /\ CancelOutcome(id).resp.status = 200
                /\ CancelOutcome(id).payments = [payments EXCEPT ![id].is_active = FALSE])
    /\ [][\A id \in PaymentIdInputs :
             Cancels(id) =>
                /\ payments' = [payments EXCEPT ![id].is_active = FALSE]
                /\ accounts' = accounts
                /\ transactions' = transactions
                /\ users' = users]_vars

\* The owner is logged in and a payment of theirs has already been cancelled: a
\* further cancellation of it is answered with success.
C12_Witness ==
    \E id \in Ids(payments) :
       /\ OwnsSourceOf(id)
       /\ ~payments[id].is_active
       /\ CancelResponse(id) = Resp(200, "")

\* C13: cancelRecurringPayment by a logged-in user fails with "Recurring payment
\* not found" (404) when the id names no payment and with "Unauthorized to cancel
\* this payment" (403) when the user does not own the payment's source account; in
\* both cases every payment, active flags included, is as it was.
C13_CancelErrors ==
    \A id \in PaymentIdInputs :
       session # 0 =>
          /\ id \notin Ids(payments) =>
                /\ CancelOutcome(id).resp = Resp(404, "Recurring payment not found")
                /\ CancelOutcome(id).payments = payments
          /\ (id \in Ids(payments) /\ accounts[payments[id].from_account_id].user_id # session) =>
                /\ CancelOutcome(id).resp = Resp(403, "Unauthorized to cancel this payment")
                /\ CancelOutcome(id).payments = payments

\* A user who does not own the source of an active payment is logged in: their
\* cancellation of it is refused as unauthorized, and one of an id that names no
\* payment as not found.
C13_Witness ==
    /\ session # 0
    /\ \E id \in Ids(payments) :
          /\ payments[id].is_active
          /\ accounts[payments[id].from_account_id].user_id # session
          /\ CancelResponse(id).status = 403
    /\ \E id \in PaymentIdInputs : CancelResponse(id).status = 404

-----------------------------------------------------------------------------
(* Properties of the registry of recurring payments (SpecRecurring) *)

\* the payments whose nextDue a step changes
Advanced == {id \in Ids(payments) :
                payments'[id].next_payment_date # payments[id].next_payment_date}

\* C14: a cancelled payment stays inactive and in the registry, unchanged, in every
\* later state; no payment is ever removed; a step changes the nextDue only of
\* payments that are active with nextDue <= now, and the Transactions it appends and
\* the balances it moves are those of exactly these payments: nothing is debited,
\* credited or logged for a cancelled payment or for one that is not yet due.
C14_CancelledStaysOut ==
    [][/\ Len(payments') >= Len(payments)
       /\ \A id \in Ids(payments) :
             /\ ~payments[id].is_active => payments'[id] = payments[id]
             /\ payments[id].next_payment_date > now =>
                   payments'[id] = [payments[id] EXCEPT !.is_active = payments'[id].is_active]
       /\ \A id \in Advanced :
             /\ payments[id].is_active
             /\ payments[id].next_payment_date <= now
       /\ Len(transactions') = Len(transactions) + Cardinality(Advanced)
       /\ \A k \in (Len(transactions) + 1)..Len(transactions') :
             \E id \in Advanced :
                /\ transactions'[k].from_account_id = payments[id].from_account_id
                /\ transactions'[k].to_account_id = payments[id].to_account_id
                /\ transactions'[k].amount = payments[id].amount
       /\ \A i \in Ids(accounts) :
             accounts'[i].balance =
                accounts[i].balance + SumOver(PaidTo(Advanced, i), PaymentAmounts)
                                    - SumOver(PaidFrom(Advanced, i), PaymentAmounts)
      ]_vars

\* A batch has run while a cancelled payment was due: the cancelled payment, of
\* lower row id and on the same source, is still inactive with the nextDue it was
\* created with, and the only Transaction in the log is the salary of the other.
C14_Witness ==
    \E p1 \in Ids(payments), p2 \in Ids(payments) :
       /\ p1 < p2
       /\ ~payments[p1].is_active
       /\ payments[p1].next_payment_date <= now
       /\ payments[p1].next_payment_date
             = payments[p1].created_at + Offset(payments[p1].frequency)
       /\ payments[p1].from_account_id = payments[p2].from_account_id
       /\ payments[p1].amount <= DefaultBalance
       /\ payments[p2].next_payment_date
             = payments[p2].created_at + 2 * Offset(payments[p2].frequency)
       /\ Len(transactions) = 1
       /\ transactions[1].transaction_type = "salary"
       /\ transactions[1].amount = payments[p2].amount
       /\ transactions[1].to_account_id = payments[p2].to_account_id

-----------------------------------------------------------------------------
(* Properties of a batch whose loop body raises (SpecRaising) *)

\* the statements of the loop body that come after the debit of the source
AfterDebit == FaultPoints \ {"funds"}

\* C15: when the processing of one payment in a batch raises after its source was
\* debited (before the credit, the log append or the nextDue advance), nothing of
\* that payment is committed: after the call the balances and the log are moved
\* only by the payments the batch paid, that payment's row is as it was, and it is
\* counted in failed.
C15_RaisingPaymentRolledBack ==
    \A victim \in Selection, point \in AfterDebit :
       LET out == ProcessBatchRaising(accounts, transactions, payments, now, victim, point)
       IN /\ victim \notin out.paid
          /\ out.payments[victim] = payments[victim]
          /\ out.failed = Cardinality(Selection \ out.paid)
          /\ Len(out.transactions) = Len(transactions) + Cardinality(out.paid)
          /\ \A i \in Ids(accounts) :
                out.accounts[i].balance =
                   accounts[i].balance + SumOver(PaidTo(out.paid, i), PaymentAmounts)
                                       - SumOver(PaidFrom(out.paid, i), PaymentAmounts)

-----------------------------------------------------------------------------
(* Properties of the records of recurring payments (Spec) *)

\* C16: in every reachable state every RecurringPayment draws on an existing account
\* of kind business, pays into an existing account, has an amount > 0 and a cadence
\* among weekly, monthly and yearly; createRecurringPayment succeeds only for a
\* logged-in caller who owns the business account named, with an existing
\* recipient, a number > 0 as amount and such a cadence, and then adds one record
\* with exactly these; any other call adds no record.
C16_PaymentsWellFormed ==
    /\ \A id \in Ids(payments) :
          /\ payments[id].from_account_id \in Ids(accounts)
          /\ accounts[payments[id].from_account_id].account_type = "business"
          /\ payments[id].to_account_id \in Ids(accounts)
          /\ payments[id].amount > 0
          /\ payments[id].frequency \in {"weekly", "monthly", "yearly"}
    /\ \A b \in NumberInputs, t \in NumberInputs, a \in AmountInputs,
          fr \in FrequencyInputs :
          LET o == CreateOutcome(b, t, a, "Salary Payment", fr)
              ok == /\ session # 0
                    /\ \E i \in Ids(accounts) :
                          /\ accounts[i].account_number = b
                          /\ accounts[i].user_id = session
                          /\ accounts[i].account_type = "business"
                    /\ \E i \in Ids(accounts) : accounts[i].account_number = t
                    /\ a.kind = "number" /\ a.val > 0
                    /\ fr \in {"weekly", "monthly", "yearly"}
          IN IF ok
             THEN /\ o.resp.status = 201
                  /\ Len(o.payments) = Len(payments) + 1
                  /\ SubSeq(o.payments, 1, Len(payments)) = payments
                  /\ LET new == o.payments[Len(o.payments)] IN
                     /\ accounts[new.from_account_id].account_number = b
                     /\ accounts[new.from_account_id].user_id = session
                     /\ accounts[new.from_account_id].account_type = "business"
                     /\ accounts[new.to_account_id].account_number = t
                     /\ new.amount = a.val
                     /\ new.frequency = fr
                     /\ new.is_active
             ELSE /\ o.resp.status # 201
                  /\ o.payments = payments

\* A recurring payment exists, and the user logged in owns only a personal account:
\* their request to create a payment from it is refused.
C16_Witness ==
    /\ Len(payments) > 0
    /\ session # 0
    /\ \E i \in Ids(accounts) :
          /\ accounts[i].user_id = session
          /\ accounts[i].account_type = "personal"
          /\ \E t \in AccountNumbers :
                /\ AccountByNumber(t) # 0
                /\ CreateResponse(accounts[i].account_number, t,
                                  Amt("number", DefaultBalance), "weekly").status = 404

-----------------------------------------------------------------------------
(* Properties of the log (Spec) *)

\* txs is the current log followed by n more entries
Extends(txs, n) ==
    /\ Len(txs) = Len(transactions) + n
    /\ SubSeq(txs, 1, Len(transactions)) = transactions

\* C17: the log is append-only.  Every step leaves the entries it finds as they
\* are, so the log of a later state extends that of an earlier one; a successful
\* transfer and a successful charge append exactly one entry and a batch one entry
\* per payment it processed; a failed transfer or charge, register, login, logout,
\* creating and cancelling a recurring payment append none.
C17_LogAppendOnly ==
    /\ [](/\ \A f \in NumberInputs, t \in NumberInputs, a \in AmountInputs :
                LET o == TransferOutcome(f, t, a, "") IN
                Extends(o.transactions, IF o.resp.status = 200 THEN 1 ELSE 0)
          /\ \A b \in NumberInputs, u \in Usernames, a \in AmountInputs, r \in Reasons :
                LET o == ChargeOutcome(b, u, GoodPin, a, r, "") IN
                Extends(o.transactions, IF o.resp.status = 200 THEN 1 ELSE 0)
          /\ Extends(FirstCall.transactions, FirstCall.processed)
          /\ FirstCall.processed = Cardinality(FirstCall.paid))
    /\ [][/\ \E n \in 0..MaxPayments : Extends(transactions', n)
          /\ (\/ users' # users
              \/ session' # session
              \/ Len(payments') # Len(payments)
              \/ \E id \in Ids(payments) : payments'[id].is_active # payments[id].is_active)
                => transactions' = transactions
          /\ payments' = payments =>
                /\ \E n \in {0, 1} : Extends(transactions', n)
                /\ \A k \in (Len(transactions) + 1)..Len(transactions') :
                      transactions'[k].transaction_type \in {"transfer", "charge"}
          /\ Len(payments') = Len(payments) =>
                /\ Len(transactions') >= Len(transactions) + Cardinality(Advanced)
                /\ Advanced # {} => Extends(transactions', Cardinality(Advanced))
         ]_vars

\* The log holds a transfer followed by the salary of a processed payment: the
\* batch appended its entry after the transfer's, which is as it was.
C17_Witness ==
    /\ Len(transactions) = 2
    /\ transactions[1].transaction_type = "transfer"
    /\ transactions[2].transaction_type = "salary"
    /\ \E id \in Ids(payments) :
          /\ payments[id].next_payment_date > now
          /\ payments[id].from_account_id = transactions[2].from_account_id
          /\ payments[id].amount = transactions[2].amount

-----------------------------------------------------------------------------
(* Properties of the balances against the log (Spec, SpecFractions) *)

\* With whole amounts, where the arithmetic of doubles is exact: the balance of each
\* account is the opening balance moved by the Transactions of the log, the balances
\* add up to 250000 times the number of accounts, and every amount is > 0 (Spec).
WholeBalancesMatchLog ==
    /\ \A i \in Ids(accounts) : accounts[i].balance = BalanceByLog(i)
    /\ SumOver(Ids(accounts), [i \in Ids(accounts) |-> accounts[i].balance])
          = 250000 * Len(accounts)
    /\ \A k \in Ids(transactions) : transactions[k].amount > 0

WholeOf == [k \in Ids(transactions) |-> transactions[k].amount.whole]
GrainsOf == [k \in Ids(transactions) |-> transactions[k].amount.grains]
TransactionsTo(i) == {k \in Ids(transactions) : transactions[k].to_account_id = i}
TransactionsFrom(i) == {k \in Ids(transactions) : transactions[k].from_account_id = i}

\* the opening balance plus the amounts of the Transactions to the account minus the
\* amounts of those from it, as a number: wholes and grains add up exactly
ExactBalanceByLog(i) ==
    Double(DefaultBalance + SumOver(TransactionsTo(i), WholeOf)
                          - SumOver(TransactionsFrom(i), WholeOf),
           SumOver(TransactionsTo(i), GrainsOf) - SumOver(TransactionsFrom(i), GrainsOf))

\* C18: after any sequence of operations, one at a time, the balance of each account
\* is its opening balance 250000 plus the amounts of the Transactions into it minus
\* the amounts of the Transactions out of it; the balances add up to 250000 times
\* the number of accounts, and every Transaction has an amount > 0.
C18_BalancesMatchLog ==
    /\ \A i \in Ids(accounts) : accounts[i].balance = ExactBalanceByLog(i)
    /\ SumOver(Ids(accounts), [i \in Ids(accounts) |-> accounts[i].balance.whole])
          = 250000 * Len(accounts)
    /\ SumOver(Ids(accounts), [i \in Ids(accounts) |-> accounts[i].balance.grains]) = 0
    /\ \A k \in Ids(transactions) : DoubleLess(Double(0, 0), transactions[k].amount)

-----------------------------------------------------------------------------
(* Properties of the counters of a batch (SpecRecurring) *)

\* the payments that are active with nextDue <= now
DueNow == {id \in Ids(payments) :
              payments[id].is_active /\ payments[id].next_payment_date <= now}

\* C19: processDuePayments returns processedCount equal to the number of salary
\* Transactions the call appended, and processedCount + failedCount equal to the
\* number of payments that were active with nextDue <= now when the call began;
\* each of these is counted once, as processed or as failed.
C19_CountersAddUp ==
    /\ Len(FirstCall.transactions) = Len(transactions) + FirstCall.processed
    /\ \A k \in (Len(transactions) + 1)..Len(FirstCall.transactions) :
          FirstCall.transactions[k].transaction_type = "salary"
    /\ FirstCall.processed + FirstCall.failed = Cardinality(DueNow)
    /\ Len(DuePayments(payments, now)) = Cardinality(DueNow)
    /\ FirstCall.paid \subseteq DueNow
    /\ FirstCall.processed = Cardinality(FirstCall.paid)
    /\ FirstCall.failed = Cardinality(DueNow \ FirstCall.paid)
    /\ FirstCall.processed >= 0 /\ FirstCall.failed >= 0

\* A batch over two due payments has counted one as processed and one as failed:
\* the log holds the one salary, the payment paid has its nextDue ahead of now, and
\* the other, which the source could no longer pay, is still due.
C19_Witness ==
    /\ Len(transactions) = 1
    /\ transactions[1].transaction_type = "salary"
    /\ Cardinality(DueNow) = 1
    /\ \E p1 \in Ids(payments), p2 \in DueNow :
          /\ p1 # p2
          /\ payments[p1].is_active
          /\ payments[p1].next_payment_date > now
          /\ payments[p1].next_payment_date
                = payments[p1].created_at + 2 * Offset(payments[p1].frequency)
          /\ payments[p2].created_at < now
          /\ accounts[payments[p2].from_account_id].balance < payments[p2].amount
    /\ FirstCall.processed = 0 /\ FirstCall.failed = 1

-----------------------------------------------------------------------------
(* Properties of a transfer to the source itself (SpecLedger) *)

-----------------------------------------------------------------------------
(* Properties of the batch invoked repeatedly at one instant (SpecRepeated) *)

\* how often payment p has been processed: the cadence intervals its nextDue has
\* moved since it was created with nextDue one interval after its creation
TimesProcessed(p) ==
    (payments[p].next_payment_date - payments[p].created_at)
        \div CadenceDays(payments[p].frequency) - 1

\* k + 1 for a payment that was k whole cadence intervals overdue at now when the
\* calls began, 0 for one that was not due
CallsOwed(p) ==
    LET first == payments[p].created_at + CadenceDays(payments[p].frequency) IN
    IF first > now THEN 0
    ELSE (now - first) \div CadenceDays(payments[p].frequency) + 1

\* C21: with now fixed and nothing else in between, repeated calls of
\* processDuePayments reach after finitely many calls a state from which every
\* further call processes nothing; each processing moves the payment's nextDue
\* strictly ahead, by one cadence interval, with one salary Transaction per payment
\* and call, so a payment k intervals overdue is processed by at most k + 1 calls.
C21_RepeatedCallsSettle ==
    /\ <>[](FirstCall.processed = 0)
    /\ [](/\ \A p \in Ids(payments) : TimesProcessed(p) \in 0..CallsOwed(p)
          /\ Len(transactions)
                = SumOver(Ids(payments), [p \in Ids(payments) |-> TimesProcessed(p)]))
    /\ [][/\ Len(payments') = Len(payments)
          /\ \A p \in Advanced :
                /\ payments'[p].next_payment_date > payments[p].next_payment_date
                /\ payments'[p].next_payment_date
                      = payments[p].next_payment_date + CadenceDays(payments[p].frequency)
          /\ Len(transactions') = Len(transactions) + Cardinality(Advanced)
          /\ \A k \in (Len(transactions) + 1)..Len(transactions') :
                transactions'[k].transaction_type = "salary"
         ]_vars

\* A payment that was more than one interval overdue has been processed by as many
\* calls as it was owed, more than two, one salary each, and a further call
\* processes nothing.
C21_Witness ==
    /\ FirstCall.processed = 0
    /\ \E p \in Ids(payments) :
          /\ payments[p].is_active
          /\ TimesProcessed(p) > 2
          /\ TimesProcessed(p) = CallsOwed(p)
          /\ payments[p].next_payment_date > now
          /\ Len(transactions) >= TimesProcessed(p)

=============================================================================
